---- MODULE Spec2Model ----
(***************************************************************************)
(* Model of the Google Docs MCP server (mcp_server/mcp_server.py): the     *)
(* tool catalog of handle_list_tools, the dispatcher handle_call_tool, and *)
(* the remote document/comment state the dispatcher acts on through the    *)
(* GoogleDocsService client.                                               *)
(*                                                                         *)
(* Texts are sequences of one-character strings.  A tool-call is a process *)
(* that is suspended at every await: CallTool runs the handler up to its   *)
(* first await, RemoteReturn / RemoteRaise complete the awaited call and   *)
(* run the handler up to its next await or to its end.                     *)
(***************************************************************************)
EXTENDS Integers, Sequences, FiniteSets, TLC

VARIABLES
    pc,         \* position of handle_call_tool: idle, awaiting, returned, raised
    name,       \* the tool name of the tool-call in progress
    arguments,  \* its argument mapping (a function from field names to values)
    calls,      \* the remote calls this tool-call has issued, in order
    response,   \* what the tool-call gives back: text content or an error
    docs,       \* remote: document id -> [body, revisionId]
    comments,   \* remote: the comments of document "d1", in order
    before,     \* history: the remote comments when the tool-call started
    edits,      \* history: the last batches applied to a document (at most 2)
    ncalls,     \* number of tool-calls and client operations started
    client,     \* a caller's own operation on the GoogleDocsService client
    deleted,    \* history: the replies delete_reply has removed
    nexternal,  \* number of batches an external writer has applied
    other       \* a second tool-call of this process, handled concurrently

vars == <<pc, name, arguments, calls, response, docs, comments, before, edits, ncalls,
          client, deleted, nexternal, other>>

(* What the dispatcher's own steps leave alone. *)
envVars == <<client, deleted, nexternal, other>>

(* Bound: tool-calls per behaviour. *)
MaxCalls == 3

(* Python's None, as print()ed into an f-string. *)
None == "None"

---------------------------------------------------------------------------
(* handle_list_tools: the advertised catalog. *)

ToolNames ==
    {"create-doc", "insert-text", "replace-text", "delete-content",
     "read-comments", "reply-comment", "read-doc", "create-comment"}

(* inputSchema["required"] of each advertised tool. *)
Required(tool) ==
    CASE tool = "create-doc"     -> {}
      [] tool = "insert-text"    -> {"document_id", "index", "text"}
      [] tool = "replace-text"   -> {"document_id", "search_text", "replace_text"}
      [] tool = "delete-content" -> {"document_id", "start_index", "end_index"}
      [] tool = "read-comments"  -> {"document_id"}
      [] tool = "reply-comment"  -> {"document_id", "comment_id", "reply"}
      [] tool = "read-doc"       -> {"document_id"}
      [] tool = "create-comment" -> {"document_id", "content", "start_offset", "length"}
      [] OTHER                   -> {}

(* The schema's advertised default of create-comment's total_length. *)
SchemaTotalLengthDefault == 5

---------------------------------------------------------------------------
(* Texts. *)

Lower(c) ==
    CASE c = "F" -> "f"
      [] c = "O" -> "o"
      [] c = "B" -> "b"
      [] c = "A" -> "a"
      [] c = "R" -> "r"
      [] OTHER   -> c

LowerText(t) == [i \in 1..Len(t) |-> Lower(t[i])]

IsPrefix(s, t) == Len(s) <= Len(t) /\ SubSeq(t, 1, Len(s)) = s

NL == "\n"

---------------------------------------------------------------------------
(* The remote document service, as GoogleDocsService presents it.  A body  *)
(* is the document's text, always ending in the final newline; the first   *)
(* character has index 1 and the body's end index is Len(body) + 1.        *)

(* The body as the structural content read_document returns: paragraphs,   *)
(* each one text run that ends with its paragraph-end newline.             *)
RECURSIVE Paragraphs(_)
Paragraphs(body) ==
    IF Len(body) = 0 THEN <<>>
    ELSE LET n == CHOOSE i \in 1..Len(body) :
                      /\ (body[i] = NL \/ i = Len(body))
                      /\ \A j \in 1..(i - 1) : body[j] # NL
         IN  <<SubSeq(body, 1, n)>> \o Paragraphs(SubSeq(body, n + 1, Len(body)))

(* read_document(document_id): the document resource. *)
ReadDocument(d) ==
    [documentId |-> d,
     revisionId |-> docs[d].revisionId,
     body       |-> [content |-> Paragraphs(docs[d].body)]]

(* Text extraction: concatenate each paragraph's run in document order. *)
RECURSIVE Flatten(_)
Flatten(paras) ==
    IF Len(paras) = 0 THEN <<>> ELSE Head(paras) \o Flatten(Tail(paras))

(* read_document_text(document_id). *)
ReadDocumentText(d) == Flatten(ReadDocument(d).body.content)

(* A revision id is an opaque token; every applied batch gives the document *)
(* a new one.  A document that carries none keeps carrying none.            *)
NextRevision(r) ==
    CASE r = "rA" -> "rB"
      [] r = "rB" -> "rC"
      [] r = "rC" -> "rA"
      [] OTHER    -> r

Matches(t, search, matchCase) ==
    IF matchCase THEN t = search ELSE LowerText(t) = LowerText(search)

(* replaceAllText: every non-overlapping occurrence, left to right. *)
RECURSIVE ReplaceAllText(_, _, _, _)
ReplaceAllText(t, search, repl, matchCase) ==
    IF Len(t) < Len(search) \/ Len(t) = 0 THEN t
    ELSE IF Matches(SubSeq(t, 1, Len(search)), search, matchCase)
         THEN repl \o ReplaceAllText(SubSeq(t, Len(search) + 1, Len(t)),
                                     search, repl, matchCase)
         ELSE <<Head(t)>> \o ReplaceAllText(Tail(t), search, repl, matchCase)

(* Whether the service accepts one structural edit request on a body. *)
RequestValid(body, r) ==
    IF "insertText" \in DOMAIN r
    THEN /\ r.insertText.location.index >= 1
         /\ r.insertText.location.index <= Len(body)
         /\ r.insertText.text # <<>>
    ELSE IF "deleteContentRange" \in DOMAIN r
    THEN /\ r.deleteContentRange.range.startIndex >= 1
         /\ r.deleteContentRange.range.startIndex < r.deleteContentRange.range.endIndex
         \* the final newline (index Len(body)) cannot be deleted; endIndex is exclusive
         /\ r.deleteContentRange.range.endIndex <= Len(body)
    ELSE r.replaceAllText.containsText.text # <<>>

(* The body after one accepted request. *)
ApplyRequest(body, r) ==
    IF "insertText" \in DOMAIN r
    THEN LET i == r.insertText.location.index
         IN  SubSeq(body, 1, i - 1) \o r.insertText.text \o SubSeq(body, i, Len(body))
    ELSE IF "deleteContentRange" \in DOMAIN r
    THEN LET s == r.deleteContentRange.range.startIndex
             e == r.deleteContentRange.range.endIndex
         IN  SubSeq(body, 1, s - 1) \o SubSeq(body, e, Len(body))
    ELSE LET n == Len(body)
         IN  ReplaceAllText(SubSeq(body, 1, n - 1),
                            r.replaceAllText.containsText.text,
                            r.replaceAllText.replaceText,
                            r.replaceAllText.containsText.matchCase) \o <<body[n]>>

(* A batch is applied in order, each request on the body the earlier ones  *)
(* left; it is accepted only if every request is.                          *)
RECURSIVE BatchValid(_, _)
BatchValid(body, requests) ==
    IF Len(requests) = 0 THEN TRUE
    ELSE /\ RequestValid(body, Head(requests))
         /\ BatchValid(ApplyRequest(body, Head(requests)), Tail(requests))

RECURSIVE ApplyBatch(_, _)
ApplyBatch(body, requests) ==
    IF Len(requests) = 0 THEN body
    ELSE ApplyBatch(ApplyRequest(body, Head(requests)), Tail(requests))

---------------------------------------------------------------------------
(* handle_call_tool: the dispatcher. *)

(* arguments.get(key, default) *)
Get(args, key, default) == IF key \in DOMAIN args THEN args[key] ELSE default

(* Variant: the chain of the earlier server, which has no branch for the   *)
(* tools added since.                                                      *)
HandledEarlier ==
    {"create-doc", "read-comments", "reply-comment", "read-doc"}

(* The names the if/elif chain tests; any other name reaches the else. *)
Handled ==
    {"create-doc", "insert-text", "replace-text", "delete-content",
     "read-comments", "reply-comment", "read-doc", "create-comment"}

(* Variant: the create-comment branch reads content, start_offset and      *)
(* length only after its first await.                                      *)
KeysReadLate(tool) ==
    CASE tool = "create-doc"     -> <<>>
      [] tool = "insert-text"    -> <<"document_id", "index", "text">>
      [] tool = "replace-text"   -> <<"document_id", "search_text", "replace_text">>
      [] tool = "delete-content" -> <<"document_id", "start_index", "end_index">>
      [] tool = "read-comments"  -> <<"document_id">>
      [] tool = "reply-comment"  -> <<"document_id", "comment_id", "reply">>
      [] tool = "read-doc"       -> <<"document_id">>
      [] tool = "create-comment" -> <<"document_id">>
      [] OTHER                   -> <<>>

(* The keys a branch reads with arguments[key], in order, before its first *)
(* await; a key that is absent raises KeyError there.                      *)
KeysRead(tool) ==
    CASE tool = "create-doc"     -> <<>>
      [] tool = "insert-text"    -> <<"document_id", "index", "text">>
      [] tool = "replace-text"   -> <<"document_id", "search_text", "replace_text">>
      [] tool = "delete-content" -> <<"document_id", "start_index", "end_index">>
      [] tool = "read-comments"  -> <<"document_id">>
      [] tool = "reply-comment"  -> <<"document_id", "comment_id", "reply">>
      [] tool = "read-doc"       -> <<"document_id">>
      [] tool = "create-comment" -> <<"document_id", "content", "start_offset", "length">>
      [] OTHER                   -> <<>>

MissingKeys(tool, args) ==
    {i \in 1..Len(KeysRead(tool)) : KeysRead(tool)[i] \notin DOMAIN args}

(* The first key read that is absent. *)
FirstMissing(tool, args) ==
    KeysRead(tool)[CHOOSE i \in MissingKeys(tool, args) :
                       \A j \in MissingKeys(tool, args) : i <= j]

KeyError(key)    == [type |-> "KeyError", message |-> <<key>>]
UnknownTool(n)   == [type |-> "ValueError", message |-> <<"Unknown tool: ", n>>]
RevisionNotFound == [type |-> "ValueError",
                     message |-> <<"Document revision ID not found.">>]
HttpError(why)   == [type |-> "HttpError", message |-> <<why>>]
NoError          == [type |-> "", message |-> <<>>]

(* Variant: arguments.get("match_case", True) *)
MatchCaseDefaultTrue(args) == Get(args, "match_case", TRUE)

(* match_case = arguments.get("match_case", False) *)
MatchCase(args) == Get(args, "match_case", FALSE)

(* Variant: arguments.get("total_length", 5), the schema's default. *)
TotalLengthSchemaDefault(args) == Get(args, "total_length", SchemaTotalLengthDefault)

(* total_length = arguments.get("total_length", length) *)
TotalLength(args) == Get(args, "total_length", args["length"])

(* Variant: the index shifted by one, as if the argument were 0-based. *)
InsertTextRequestShifted(args) ==
    [insertText |-> [location |-> [index |-> args["index"] + 1],
                     text     |-> args["text"]]]

(* The insertText request of the insert-text branch. *)
InsertTextRequest(args) ==
    [insertText |-> [location |-> [index |-> args["index"]],
                     text     |-> args["text"]]]

(* The replaceAllText request of the replace-text branch. *)
ReplaceAllTextRequest(args) ==
    [replaceAllText |-> [containsText |-> [text      |-> args["search_text"],
                                           matchCase |-> MatchCase(args)],
                         replaceText  |-> args["replace_text"]]]

(* Variant: end_index taken as inclusive. *)
DeleteContentRangeInclusive(args) ==
    [deleteContentRange |-> [range |-> [startIndex |-> args["start_index"],
                                        endIndex   |-> args["end_index"] + 1]]]

(* The deleteContentRange request of the delete-content branch. *)
DeleteContentRangeRequest(args) ==
    [deleteContentRange |-> [range |-> [startIndex |-> args["start_index"],
                                        endIndex   |-> args["end_index"]]]]

(* A remote call as issued: who is called, the operation, its parameters. *)
Call(target, op, d, payload) ==
    [target |-> target, op |-> op, document_id |-> d, payload |-> payload,
     status |-> "pending", result |-> <<>>]

(* The call a branch awaits first. *)
FirstCall(tool, args) ==
    CASE tool = "create-doc" ->
           Call("client", "create_document", None, Get(args, "title", "New Document"))
      [] tool = "insert-text" ->
           Call("client", "edit_document", args["document_id"],
                <<InsertTextRequest(args)>>)
      [] tool = "replace-text" ->
           Call("client", "edit_document", args["document_id"],
                <<ReplaceAllTextRequest(args)>>)
      [] tool = "delete-content" ->
           Call("client", "edit_document", args["document_id"],
                <<DeleteContentRangeRequest(args)>>)
      [] tool = "read-comments" ->
           Call("client", "read_comments", args["document_id"], <<>>)
      [] tool = "reply-comment" ->
           Call("client", "reply_comment", args["document_id"],
                [comment_id |-> args["comment_id"], reply |-> args["reply"]])
      [] tool = "read-doc" ->
           Call("client", "read_document_text", args["document_id"], <<>>)
      [] tool = "create-comment" ->
           Call("client", "read_document", args["document_id"], <<>>)

(* Variant: if revision_id is None *)
RevisionIsNone(revision_id) == revision_id = None

(* if not revision_id *)
RevisionMissing(revision_id) == revision_id = None \/ revision_id = ""

(* Variant: the anchor names the head revision instead of the one read. *)
AnchorValueHead(revision_id, start_offset, length, total_length) ==
    <<"{'r': '", "head", "', 'a': [{'txt': {'o': ", start_offset,
      ", 'l': ", length, ", 'ml': ", total_length, "}}]}">>

(* The anchor f-string, as its literal pieces and the values formatted in. *)
AnchorValue(revision_id, start_offset, length, total_length) ==
    <<"{'r': '", revision_id, "', 'a': [{'txt': {'o': ", start_offset,
      ", 'l': ", length, ", 'ml': ", total_length, "}}]}">>

(* Variant: the creation delegated to the client's create_comment. *)
CreateCommentViaClient(args, doc) ==
    Call("client", "create_comment", args["document_id"],
         [content |-> args["content"],
          anchor  |-> AnchorValue(doc.revisionId, args["start_offset"],
                                  args["length"], TotalLength(args))])

(* _create_comment: the comment-creation call, made on the Drive service   *)
(* handle of the client, in a worker thread.                               *)
CreateCommentCall(args, doc) ==
    Call("drive_service", "comments.create", args["document_id"],
         [content |-> args["content"],
          anchor  |-> AnchorValue(doc.revisionId, args["start_offset"],
                                  args["length"], TotalLength(args)),
          fields  |-> "id,content,author,createdTime,modifiedTime"])

(* Whether a branch has another call to make after its first one returned. *)
HasSecondCall(tool, done) == tool = "create-comment" /\ Len(done) = 1

TextContent(text) == [type |-> "text", text |-> text]

(* Variant: read-comments returns one item per comment. *)
RenderPerComment(tool, args, result) ==
    IF tool = "read-comments"
    THEN [i \in 1..Len(result) |-> TextContent(<<result[i]>>)]
    ELSE <<TextContent(<<tool, result>>)>>

(* The list a branch returns, from its last call's result. *)
Render(tool, args, result) ==
    CASE tool = "create-doc" ->
           <<TextContent(<<"Document created at URL: https://docs.google.com/document/d/",
                           result.documentId, "/edit">>)>>
      [] tool = "insert-text" ->
           <<TextContent(<<"Inserted text into document ", args["document_id"], ".">>)>>
      [] tool = "replace-text" ->
           <<TextContent(<<"Replaced text in document ", args["document_id"], ": ",
                           result>>)>>
      [] tool = "delete-content" ->
           <<TextContent(<<"Deleted content from document ", args["document_id"], ": ",
                           result>>)>>
      [] tool = "read-comments" -> <<TextContent(<<result>>)>>
      [] tool = "reply-comment" -> <<TextContent(<<"Reply posted: ", result>>)>>
      [] tool = "read-doc"      -> <<TextContent(result)>>
      [] tool = "create-comment" -> <<TextContent(<<"Comment created: ", result>>)>>

(* An exception leaves the handler: nothing is returned. *)
Raise(error) == [content |-> <<>>, error |-> error]

Return(content) == [content |-> content, error |-> NoError]

(* Variant: the exception of a remote call caught and reported as text. *)
PropagateAsText(error) == Return(<<TextContent(<<"Error: ", error.message>>)>>)

(* No try/except surrounds an await: the exception of a remote call is the *)
(* exception of the tool-call.                                             *)
Propagate(error) == Raise(error)

---------------------------------------------------------------------------
(* The remote side of a call: whether the service accepts it, what it      *)
(* returns and what it changes.                                            *)

DocIdPool == <<"d1", "d2", "d3", "d4", "d5", "d6">>

NewDocId == DocIdPool[Cardinality(DOMAIN docs) + 1]

HasComment(d, id) ==
    \E i \in 1..Len(comments) : comments[i].fileId = d /\ comments[i].id = id

(* Whether the comment id of document d has a reply rid. *)
HasReply(d, id, rid) ==
    \E i \in 1..Len(comments) :
        /\ comments[i].fileId = d /\ comments[i].id = id
        /\ \E j \in 1..Len(comments[i].replies) : comments[i].replies[j].id = rid

(* Variant: the reply is kept and only marked as deleted. *)
WithoutReplyMarked(replies, rid) ==
    [j \in 1..Len(replies) |->
        IF replies[j].id = rid THEN [replies[j] EXCEPT !.content = "deleted"]
        ELSE replies[j]]

(* The replies of a comment once the reply rid is deleted. *)
WithoutReply(replies, rid) ==
    LET Kept(r) == r.id # rid IN SelectSeq(replies, Kept)

CommentsOf(d) ==
    LET OfDoc(c) == c.fileId = d IN SelectSeq(comments, OfDoc)

Accepted(c) ==
    CASE c.op = "create_document" -> TRUE
      [] c.op = "edit_document" ->
           /\ c.document_id \in DOMAIN docs
           /\ BatchValid(docs[c.document_id].body, c.payload)
      [] c.op = "reply_comment" ->
           /\ c.document_id \in DOMAIN docs
           /\ HasComment(c.document_id, c.payload.comment_id)
      [] c.op = "delete_reply" ->
           /\ c.document_id \in DOMAIN docs
           /\ HasReply(c.document_id, c.payload.comment_id, c.payload.reply_id)
      [] c.op = "comments.create" ->
           /\ c.document_id \in DOMAIN docs
           \* an anchor of a revision that is not the current one does not resolve
           /\ c.payload.anchor[2] = docs[c.document_id].revisionId
      [] OTHER -> c.document_id \in DOMAIN docs

NewComment(c) ==
    [fileId |-> c.document_id, id |-> Len(comments) + 1,
     content |-> c.payload.content, anchor |-> c.payload.anchor, replies |-> <<>>,
     issued |-> 0]

NewReply(c) ==
    LET i == CHOOSE k \in 1..Len(comments) :
                 comments[k].fileId = c.document_id /\ comments[k].id = c.payload.comment_id
    \* a reply id is never given twice: issued counts the replies ever posted
    IN  [id |-> comments[i].issued + 1, content |-> c.payload.reply]

Result(c) ==
    CASE c.op = "create_document"    -> [documentId |-> NewDocId]
      [] c.op = "edit_document"      ->
           [documentId |-> c.document_id,
            revisionId |-> NextRevision(docs[c.document_id].revisionId)]
      [] c.op = "read_document"      -> ReadDocument(c.document_id)
      [] c.op = "read_document_text" -> ReadDocumentText(c.document_id)
      [] c.op = "read_comments"      -> CommentsOf(c.document_id)
      [] c.op = "reply_comment"      -> NewReply(c)
      [] c.op = "delete_reply"       -> None
      [] c.op = "comments.create"    ->
           [id |-> NewComment(c).id, content |-> NewComment(c).content]

DocsAfter(c) ==
    CASE c.op = "create_document" ->
           [d \in DOMAIN docs \cup {NewDocId} |->
               IF d \in DOMAIN docs THEN docs[d]
               ELSE [title |-> c.payload, body |-> <<NL>>, revisionId |-> "rA"]]
      [] c.op = "edit_document" ->
           [docs EXCEPT ![c.document_id] =
               [@ EXCEPT !.body       = ApplyBatch(@, c.payload),
                         !.revisionId = NextRevision(@)]]
      [] OTHER -> docs

CommentsAfter(c) ==
    CASE c.op = "comments.create" -> Append(comments, NewComment(c))
      [] c.op = "reply_comment" ->
           [i \in 1..Len(comments) |->
               IF comments[i].fileId = c.document_id /\ comments[i].id = c.payload.comment_id
               THEN [comments[i] EXCEPT !.replies = Append(@, NewReply(c)),
                                        !.issued  = @ + 1]
               ELSE comments[i]]
      [] c.op = "delete_reply" ->
           [i \in 1..Len(comments) |->
               IF comments[i].fileId = c.document_id /\ comments[i].id = c.payload.comment_id
               THEN [comments[i] EXCEPT !.replies = WithoutReply(@, c.payload.reply_id)]
               ELSE comments[i]]
      [] OTHER -> comments

(* History: the batch applied, who submitted it and with what arguments,   *)
(* and the text read-doc gave before it.  The last two are kept.           *)
Edited(tool, args, d, requests) ==
    LET e == [tool |-> tool, arguments |-> args,
              document_id |-> d, requests |-> requests,
              was |-> ReadDocumentText(d)]
    IN  IF edits = <<>> THEN <<e>> ELSE <<edits[Len(edits)], e>>

EditsAfter(c) ==
    IF c.op = "edit_document"
    THEN Edited(name, arguments, c.document_id, c.payload)
    ELSE edits

(* The errors the service can answer a call with. *)
RemoteErrors(c) ==
    {HttpError("unavailable")} \cup
    (IF Accepted(c) THEN {} ELSE {HttpError("rejected")})

---------------------------------------------------------------------------
(* The tool-calls a caller makes. *)

DocIds       == {"d1"}
InsertIndex  == {1, 3}
InsertTexts  == {<<"f", "o">>, <<"O", NL>>}
DeleteRanges == {<<1, 3>>, <<2, 3>>}
SearchTexts  == {<<"f", "o", "o">>}
ReplaceTexts == {<<"B", "A", "R">>}
Lengths      == {3}
TotalLengths == {2, 5}

Without(args, key) == [k \in DOMAIN args \ {key} |-> args[k]]

(* Argument mappings that carry every required field. *)
FullArguments(tool) ==
    CASE tool = "create-doc" -> {<<>>, [title |-> "T"]}
      [] tool = "insert-text" ->
           {[document_id |-> d, index |-> i, text |-> t] :
               d \in DocIds, i \in InsertIndex, t \in InsertTexts}
      [] tool = "replace-text" ->
           LET base == {[document_id |-> d, search_text |-> s, replace_text |-> r] :
                           d \in DocIds, s \in SearchTexts, r \in ReplaceTexts}
           IN  base \cup {a @@ ("match_case" :> m) : a \in base, m \in BOOLEAN}
      [] tool = "delete-content" ->
           {[document_id |-> d, start_index |-> r[1], end_index |-> r[2]] :
               d \in DocIds, r \in DeleteRanges}
      [] tool = "read-comments" -> {[document_id |-> d] : d \in DocIds}
      [] tool = "reply-comment" ->
           {[document_id |-> d, comment_id |-> 1, reply |-> "ok"] : d \in DocIds}
      [] tool = "read-doc" -> {[document_id |-> d] : d \in DocIds}
      [] tool = "create-comment" ->
           LET base == {[document_id |-> d, content |-> "note", start_offset |-> 0,
                         length |-> l] : d \in DocIds, l \in Lengths}
           IN  base \cup {a @@ ("total_length" :> m) : a \in base, m \in TotalLengths}
      [] OTHER -> {[document_id |-> d] : d \in DocIds}

(* The same, and each with one required field left out. *)
ArgumentMappings(tool) ==
    FullArguments(tool) \cup
    {Without(a, k) : a \in FullArguments(tool), k \in Required(tool)}

(* The advertised names, and the edit-doc tool of the earlier server. *)
CallNames == ToolNames \cup {"edit-doc"}

---------------------------------------------------------------------------
(* Actions. *)

Idle == [content |-> <<>>, error |-> NoError]

(* A tool-call arrives: the handler runs to its first await, or raises. *)
CallTool(n, a) ==
    /\ pc = "idle"
    /\ ncalls < MaxCalls
    /\ ncalls' = ncalls + 1
    /\ name' = n
    /\ arguments' = a
    /\ before' = comments
    /\ IF n \notin Handled
       THEN /\ pc' = "raised"
            /\ response' = Raise(UnknownTool(n))
            /\ calls' = <<>>
       ELSE IF MissingKeys(n, a) # {}
       THEN /\ pc' = "raised"
            /\ response' = Raise(KeyError(FirstMissing(n, a)))
            /\ calls' = <<>>
       ELSE /\ pc' = "awaiting"
            /\ response' = Idle
            /\ calls' = <<FirstCall(n, a)>>
    /\ UNCHANGED <<docs, comments, edits>>
    /\ UNCHANGED envVars

(* The awaited call returns: the service has applied it, and the handler   *)
(* runs on to its next await, to its return or to its raise.               *)
RemoteReturn ==
    /\ pc = "awaiting"
    /\ LET c    == calls[Len(calls)]
           res  == Result(c)
           done == [calls EXCEPT ![Len(calls)] =
                       [c EXCEPT !.status = "ok", !.result = res]]
       IN  /\ Accepted(c)
           /\ docs' = DocsAfter(c)
           /\ comments' = CommentsAfter(c)
           /\ edits' = EditsAfter(c)
           /\ IF HasSecondCall(name, done)
              THEN IF RevisionMissing(res.revisionId)
                   THEN /\ pc' = "raised"
                        /\ response' = Raise(RevisionNotFound)
                        /\ calls' = done
                   ELSE /\ pc' = "awaiting"
                        /\ response' = Idle
                        /\ calls' = Append(done, CreateCommentCall(arguments, res))
              ELSE /\ pc' = "returned"
                   /\ response' = Return(Render(name, arguments, res))
                   /\ calls' = done
    /\ UNCHANGED <<name, arguments, before, ncalls>>
    /\ UNCHANGED envVars

(* The awaited call raises: nothing catches it, it leaves the handler. *)
RemoteRaise(e) ==
    /\ pc = "awaiting"
    /\ e \in RemoteErrors(calls[Len(calls)])
    /\ calls' = [calls EXCEPT ![Len(calls)] =
                    [@ EXCEPT !.status = "error", !.result = e]]
    /\ pc' = "raised"
    /\ response' = Propagate(e)
    /\ UNCHANGED <<name, arguments, docs, comments, before, edits, ncalls>>
    /\ UNCHANGED envVars

(* The response is handed to the caller; the dispatcher is free again. *)
Finish ==
    /\ pc \in {"returned", "raised"}
    /\ pc' = "idle"
    /\ name' = ""
    /\ arguments' = <<>>
    /\ calls' = <<>>
    /\ response' = Idle
    /\ before' = comments
    /\ UNCHANGED <<docs, comments, edits, ncalls>>
    /\ UNCHANGED envVars

InitBodies == {<<NL>>, <<"F", "O", "O", " ", "f", "o", "o", NL>>}
InitRevisions == {"rA", None, ""}

(* No operation of a caller in progress. *)
ClientIdle == [pc |-> "idle", op |-> "", args |-> <<>>, calls |-> <<>>,
               result |-> <<>>, error |-> NoError]

(* No second tool-call in progress. *)
OtherIdle == [pc |-> "idle", name |-> "", arguments |-> <<>>, calls |-> <<>>]

(* The state after construction, the document "d1" having the given comments. *)
InitWith(cs) ==
    /\ pc = "idle"
    /\ name = ""
    /\ arguments = <<>>
    /\ calls = <<>>
    /\ response = Idle
    /\ \E b \in InitBodies, r \in InitRevisions :
           docs = [d \in {"d1"} |-> [title |-> "T", body |-> b, revisionId |-> r]]
    /\ comments = cs
    /\ before = cs
    /\ edits = <<>>
    /\ ncalls = 0
    /\ client = ClientIdle
    /\ deleted = {}
    /\ nexternal = 0
    /\ other = OtherIdle

Init == InitWith(<<>>)

Next ==
    \/ \E n \in CallNames : \E a \in ArgumentMappings(n) : CallTool(n, a)
    \/ RemoteReturn
    \/ \E e \in {HttpError("unavailable"), HttpError("rejected")} : RemoteRaise(e)
    \/ Finish

Spec == Init /\ [][Next]_vars

---------------------------------------------------------------------------
(* Properties. *)

Finished == pc \in {"returned", "raised"}

Failed == pc = "raised" /\ Len(response.content) = 0 /\ response.error # NoError

MissingRequired == Required(name) \ DOMAIN arguments

(* C1: a call to an advertised tool whose argument mapping lacks one of    *)
(* the tool's required fields fails, and no remote call has been issued    *)
(* for it: the call log is empty and the remote comments are untouched.    *)
C1_MissingRequiredFailsBeforeAnyCall ==
    (pc # "idle" /\ name \in ToolNames /\ MissingRequired # {}) =>
        /\ Failed
        /\ Len(calls) = 0
        /\ comments = before

C1_Witness ==
    /\ pc = "raised"
    /\ name = "create-comment"
    /\ MissingRequired = {"length"}
    /\ response.error = KeyError("length")
    /\ Len(calls) = 0

IsUnknownToolError(error) ==
    /\ error.type = "ValueError"
    /\ Len(error.message) = 2
    /\ error.message[1] = "Unknown tool: "

(* C2: a tool-call fails with the "Unknown tool" error exactly when its    *)
(* name is not one of the eight advertised names, and then no remote call  *)
(* has been issued.                                                        *)
C2_UnknownToolIffNotAdvertised ==
    /\ Cardinality(ToolNames) = 8
    /\ Finished => (IsUnknownToolError(response.error) <=> name \notin ToolNames)
    /\ (pc # "idle" /\ name \notin ToolNames) =>
           /\ Failed
           /\ response.error = UnknownTool(name)
           /\ Len(calls) = 0

C2_Witness ==
    /\ pc = "raised"
    /\ name = "edit-doc"
    /\ response.error = UnknownTool("edit-doc")
    /\ Len(calls) = 0

ReadWithoutRevision ==
    /\ name = "create-comment"
    /\ Len(calls) >= 1
    /\ calls[1].op = "read_document"
    /\ calls[1].status = "ok"
    /\ calls[1].result.revisionId \in {None, ""}

(* C3: a create-comment tool-call whose read_document result carries no    *)
(* revision id, or an empty one, fails with the precondition error; the    *)
(* read is the only call it issued (no comment creation, no mutation) and  *)
(* the remote comments are what they were.                                 *)
C3_NoRevisionFailsBeforeCreate ==
    ReadWithoutRevision =>
        /\ Failed
        /\ response.error = RevisionNotFound
        /\ Len(calls) = 1
        /\ comments = before

C3_Witness ==
    /\ ReadWithoutRevision
    /\ calls[1].result.revisionId = ""
    /\ pc = "raised"
    /\ response.error = RevisionNotFound

(* C4: a tool-call that returns gives a list of exactly one text content   *)
(* item, and its remote calls are sequential: only the last call issued    *)
(* can be in flight, every earlier one has completed.                      *)
C4_OneTextItemSequentialCalls ==
    /\ pc = "returned" =>
           /\ Len(response.content) = 1
           /\ response.content[1].type = "text"
           /\ response.error = NoError
    /\ \A i \in 1..Len(calls) :
           calls[i].status = "pending" => (i = Len(calls) /\ pc = "awaiting")
    /\ \A i \in 1..(Len(calls) - 1) : calls[i].status = "ok"

C4_Witness ==
    /\ pc = "returned"
    /\ name = "create-comment"
    /\ Len(calls) = 2
    /\ calls[1].status = "ok" /\ calls[2].status = "ok"
    /\ Len(response.content) = 1

(* C5: the anchor sent with a comment-creation call is the f-string with   *)
(* r the revision id read from the document, o = start_offset, l = length  *)
(* and ml = total_length, ml being length when total_length is omitted.    *)
C5_AnchorEncodesArguments ==
    \A i \in 1..Len(calls) :
        calls[i].op = "comments.create" =>
            calls[i].payload.anchor =
                <<"{'r': '", calls[1].result.revisionId,
                  "', 'a': [{'txt': {'o': ", arguments["start_offset"],
                  ", 'l': ", arguments["length"],
                  ", 'ml': ", (IF "total_length" \in DOMAIN arguments
                               THEN arguments["total_length"]
                               ELSE arguments["length"]),
                  "}}]}">>

C5_Witness ==
    /\ Len(calls) = 2
    /\ calls[2].op = "comments.create"
    /\ "total_length" \notin DOMAIN arguments
    /\ calls[2].payload.anchor[8] = arguments["length"]
    /\ calls[2].payload.anchor[8] # SchemaTotalLengthDefault
    /\ calls[2].payload.anchor[2] = "rA"

(* The calls of a create-comment tool-call: the client's read_document,   *)
(* completed, and then one call of the given target and operation.         *)
ReadsThenCreates(target, op) ==
    /\ Len(calls) = 2
    /\ calls[1].target = "client" /\ calls[1].op = "read_document"
    /\ calls[1].status = "ok"
    /\ calls[2].target = target /\ calls[2].op = op
    /\ calls[2].status = "ok"

OneClientCall ==
    /\ Len(calls) = 1
    /\ calls[1].target = "client"
    /\ calls[1].status = "ok"

(* C6, as claimed: a create-comment tool-call that returns has read the    *)
(* document and then created the comment through the client's              *)
(* create_comment; any other tool-call that returns made one client call.  *)
C6_CreationDelegatedToClient ==
    pc = "returned" =>
        IF name = "create-comment"
        THEN ReadsThenCreates("client", "create_comment")
        ELSE OneClientCall

(* C6, amended: a create-comment tool-call first completes the client's    *)
(* read_document and only then issues the creation, which it makes itself  *)
(* on the Drive service handle (comments.create), not through the client's *)
(* create_comment; any other tool-call that returns made one client call.  *)
C6_ReadThenDirectDriveCreate ==
    /\ pc = "returned" =>
           IF name = "create-comment"
           THEN ReadsThenCreates("drive_service", "comments.create")
           ELSE OneClientCall
    /\ \A i \in 1..Len(calls) :
           (i > 1 \/ calls[i].target # "client") =>
               /\ name = "create-comment" /\ i = 2
               /\ calls[i].target = "drive_service"
               /\ calls[i].op = "comments.create"
               /\ calls[1].op = "read_document" /\ calls[1].status = "ok"

C6_Witness ==
    /\ pc = "returned"
    /\ name = "create-comment"
    /\ ReadsThenCreates("drive_service", "comments.create")
    /\ Len(comments) = Len(before) + 1

(* C7: a remote call that failed is the last call of its tool-call and the *)
(* tool-call has failed with that call's error, returning no content; no   *)
(* operation is called twice in one tool-call.                             *)
C7_RemoteFailurePropagatesNoRetry ==
    /\ \A i \in 1..Len(calls) :
           calls[i].status = "error" =>
               /\ i = Len(calls)
               /\ Failed
               /\ response.error = calls[i].result
    /\ \A i, j \in 1..Len(calls) : i # j => calls[i].op # calls[j].op
    /\ pc = "returned" => \A i \in 1..Len(calls) : calls[i].status = "ok"

C7_Witness ==
    /\ Len(calls) = 2
    /\ calls[1].status = "ok"
    /\ calls[2].status = "error"
    /\ pc = "raised"
    /\ response.error = HttpError("unavailable")
    /\ comments = before

Occurs(t, search, matchCase) ==
    \E i \in 1..(Len(t) - Len(search) + 1) :
        Matches(SubSeq(t, i, i + Len(search) - 1), search, matchCase)

Occurrences(t, search, matchCase) ==
    Cardinality({i \in 1..(Len(t) - Len(search) + 1) :
                    Matches(SubSeq(t, i, i + Len(search) - 1), search, matchCase)})

FooText == <<"f", "o", "o">>
BarText == <<"B", "A", "R">>
FOO_foo == <<"F", "O", "O", " ", "f", "o", "o", NL>>
BAR_BAR == <<"B", "A", "R", " ", "B", "A", "R", NL>>
BAR_foo == <<"B", "A", "R", " ", "f", "o", "o", NL>>
FOO_BAR == <<"F", "O", "O", " ", "B", "A", "R", NL>>

ArgMatchCase(args) == IF "match_case" \in DOMAIN args THEN args["match_case"] ELSE FALSE

(* A replace-text tool-call submits one batch of one replaceAllText        *)
(* request, matchCase being the match_case argument, or false without it.  *)
ReplaceSubmitsOneRequest ==
    (name = "replace-text" /\ Len(calls) >= 1) =>
        /\ Len(calls) = 1
        /\ calls[1].op = "edit_document"
        /\ calls[1].document_id = arguments["document_id"]
        /\ Len(calls[1].payload) = 1
        /\ DOMAIN calls[1].payload[1] = {"replaceAllText"}
        /\ LET r == calls[1].payload[1].replaceAllText
           IN  /\ r.containsText.matchCase = ArgMatchCase(arguments)
               /\ r.containsText.text = arguments["search_text"]
               /\ r.replaceText = arguments["replace_text"]

LastEdit == edits[Len(edits)]

LastEditIs(tool) == Len(edits) >= 1 /\ LastEdit.tool = tool

(* On the document the last replace-text was applied to: nothing changes   *)
(* where the search text does not occur, no occurrence is left, and with   *)
(* matchCase the occurrences in another case are all still there.          *)
ReplaceEffect ==
    LastEditIs("replace-text") =>
        LET a  == LastEdit.arguments
            mc == ArgMatchCase(a)
            t  == LastEdit.was
            r  == ReadDocumentText(LastEdit.document_id)
        IN  /\ ~Occurs(t, a["search_text"], mc) => r = t
            /\ ~Occurs(r, a["search_text"], mc)
            /\ mc => Occurrences(r, a["search_text"], FALSE) =
                         Occurrences(t, a["search_text"], FALSE)
                       - Occurrences(t, a["search_text"], TRUE)

(* The document "FOO foo" with "foo" replaced by "BAR" reads back as       *)
(* insensitive without matchCase and as sensitive with it.                 *)
ReplaceExample(insensitive, sensitive) ==
    ( /\ LastEditIs("replace-text")
      /\ LastEdit.was = FOO_foo
      /\ LastEdit.arguments["search_text"] = FooText
      /\ LastEdit.arguments["replace_text"] = BarText ) =>
        ReadDocumentText(LastEdit.document_id) =
            IF ArgMatchCase(LastEdit.arguments) THEN sensitive ELSE insensitive

(* C8, as claimed: replace-text submits one replaceAllText request whose   *)
(* matchCase is the match_case argument (false when omitted); only the     *)
(* case-exact occurrences are replaced with matchCase and all of them      *)
(* without; "FOO foo" with "foo" -> "BAR" gives "BAR BAR" without          *)
(* matchCase and "BAR foo" with it.                                        *)
C8_ReplaceAsClaimed ==
    /\ ReplaceSubmitsOneRequest
    /\ ReplaceEffect
    /\ ReplaceExample(BAR_BAR, BAR_foo)

(* C8, amended: the same, the example with matchCase giving "FOO BAR":     *)
(* the case-exact occurrence of "foo" in "FOO foo" is the second word.     *)
C8_ReplaceMatchCase ==
    /\ ReplaceSubmitsOneRequest
    /\ ReplaceEffect
    /\ ReplaceExample(BAR_BAR, FOO_BAR)

C8_Witness ==
    /\ pc = "returned"
    /\ name = "replace-text"
    /\ LastEditIs("replace-text")
    /\ LastEdit.arguments = arguments
    /\ "match_case" \in DOMAIN arguments /\ arguments["match_case"]
    /\ LastEdit.was = FOO_foo
    /\ ReadDocumentText("d1") = FOO_BAR

(* C9: when the last batch applied to a document is that of an insert-text *)
(* tool-call with index 1 and a non-empty text s, a read-doc tool-call on  *)
(* the document returns a text that begins with s.                         *)
C9_InsertAtOneThenReadBeginsWith ==
    ( /\ pc = "returned"
      /\ name = "read-doc"
      /\ LastEditIs("insert-text")
      /\ LastEdit.document_id = arguments["document_id"]
      /\ LastEdit.arguments["index"] = 1
      /\ Len(LastEdit.arguments["text"]) > 0 ) =>
        IsPrefix(LastEdit.arguments["text"], response.content[1].text)

C9_Witness ==
    /\ pc = "returned"
    /\ name = "read-doc"
    /\ LastEditIs("insert-text")
    /\ LastEdit.arguments["index"] = 1
    /\ LastEdit.arguments["text"] = <<"f", "o">>
    /\ LastEdit.was = FOO_foo
    /\ response.content[1].text = <<"f", "o">> \o FOO_foo

(* The last two batches applied are an insert-text of s at index 1 and, on *)
(* the same document, a delete-content of [1, 1 + len(s)).                 *)
InsertedThenDeleted ==
    /\ Len(edits) = 2
    /\ edits[1].tool = "insert-text"
    /\ edits[1].arguments["index"] = 1
    /\ edits[2].tool = "delete-content"
    /\ edits[2].document_id = edits[1].document_id
    /\ edits[2].arguments["start_index"] = 1
    /\ edits[2].arguments["end_index"] = 1 + Len(edits[1].arguments["text"])

(* C10: after insert-text of s at index 1 and then delete-content of       *)
(* [1, 1 + len(s)), the document reads as it did before the insertion, and *)
(* a read-doc tool-call returns that text.                                 *)
C10_InsertThenDeleteRestores ==
    InsertedThenDeleted =>
        /\ ReadDocumentText(edits[1].document_id) = edits[1].was
        /\ ( /\ pc = "returned"
             /\ name = "read-doc"
             /\ arguments["document_id"] = edits[1].document_id ) =>
               response.content[1].text = edits[1].was

C10_Witness ==
    /\ InsertedThenDeleted
    /\ pc = "returned"
    /\ name = "read-doc"
    /\ edits[1].arguments["text"] = <<"O", NL>>
    /\ edits[1].was = FOO_foo
    /\ response.content[1].text = FOO_foo

---------------------------------------------------------------------------
(* The operations of the GoogleDocsService client that a caller awaits     *)
(* directly, as the integration tests do, and a writer outside the process *)
(* that edits the same document.                                           *)

MaxExternal == 1

(* re.sub(r'\n+', '\n', text): every run of newlines becomes one newline. *)
RECURSIVE CollapseNewlines(_)
CollapseNewlines(t) ==
    IF Len(t) <= 1 THEN t
    ELSE IF t[1] = NL /\ t[2] = NL THEN CollapseNewlines(Tail(t))
    ELSE <<Head(t)>> \o CollapseNewlines(Tail(t))

Whitespace == {" ", NL}

RECURSIVE StripLeft(_)
StripLeft(t) ==
    IF Len(t) = 0 THEN t
    ELSE IF Head(t) \in Whitespace THEN StripLeft(Tail(t)) ELSE t

RECURSIVE StripRight(_)
StripRight(t) ==
    IF Len(t) = 0 THEN t
    ELSE IF t[Len(t)] \in Whitespace THEN StripRight(SubSeq(t, 1, Len(t) - 1)) ELSE t

(* str.strip() *)
Strip(t) == StripRight(StripLeft(t))

(* normalize_text(text) of the integration tests. *)
normalize_text(text) == Strip(CollapseNewlines(text))

(* The end of the span a rewrite deletes, from the document it read: the   *)
(* index of the final newline, which cannot be deleted.                    *)
CurrentEndIndex(doc) == Len(Flatten(doc.body.content))

(* Variant: the span ends one character early. *)
RewriteRequestsShort(doc, new_text) ==
    <<[deleteContentRange |->
          [range |-> [startIndex |-> 1, endIndex |-> CurrentEndIndex(doc) - 1]]],
      [insertText |-> [location |-> [index |-> 1], text |-> new_text]]>>

(* The batch of rewrite_document: delete [1, current_end_index), then      *)
(* insert new_text at index 1.                                             *)
RewriteRequests(doc, new_text) ==
    <<[deleteContentRange |->
          [range |-> [startIndex |-> 1, endIndex |-> CurrentEndIndex(doc)]]],
      [insertText |-> [location |-> [index |-> 1], text |-> new_text]]>>

ClientOps == {"rewrite_document", "read_document_text", "read_comments",
              "reply_comment", "delete_reply"}

NewTexts == {<<"B", "A", "R">>, <<"a", NL, NL, "b">>}
ReplyIds == {1, 2, 3}

ClientArguments(op) ==
    CASE op = "rewrite_document" ->
           {[document_id |-> d, new_text |-> t] : d \in DocIds, t \in NewTexts}
      [] op = "reply_comment" ->
           {[document_id |-> d, comment_id |-> 1, reply |-> "ok"] : d \in DocIds}
      [] op = "delete_reply" ->
           {[document_id |-> d, comment_id |-> 1, reply_id |-> r] :
               d \in DocIds, r \in ReplyIds}
      [] OTHER -> {[document_id |-> d] : d \in DocIds}

(* The call an operation of the client awaits first. *)
ClientFirstCall(op, args) ==
    CASE op = "rewrite_document" ->
           Call("client", "read_document", args.document_id, <<>>)
      [] op = "reply_comment" ->
           Call("client", "reply_comment", args.document_id,
                [comment_id |-> args.comment_id, reply |-> args.reply])
      [] op = "delete_reply" ->
           Call("client", "delete_reply", args.document_id,
                [comment_id |-> args.comment_id, reply_id |-> args.reply_id])
      [] OTHER -> Call("client", op, args.document_id, <<>>)

(* rewrite_document submits its batch once its read has returned. *)
ClientHasSecondCall(op, done) == op = "rewrite_document" /\ Len(done) = 1

ClientSecondCall(args, doc) ==
    Call("client", "edit_document", args.document_id,
         RewriteRequests(doc, args.new_text))

(* A caller awaits an operation of the client. *)
ClientStart(op, args) ==
    /\ pc = "idle"
    /\ client.pc = "idle"
    /\ ncalls < MaxCalls
    /\ ncalls' = ncalls + 1
    /\ client' = [pc |-> "awaiting", op |-> op, args |-> args,
                  calls |-> <<ClientFirstCall(op, args)>>,
                  result |-> <<>>, error |-> NoError]
    /\ UNCHANGED <<pc, name, arguments, calls, response, docs, comments, before, edits,
                   deleted, nexternal, other>>

(* The awaited call returns: the service has applied it.  A rewrite goes   *)
(* on to its batch; any other operation returns the call's result.         *)
ClientReturn ==
    /\ client.pc = "awaiting"
    /\ LET c    == client.calls[Len(client.calls)]
           res  == Result(c)
           done == [client.calls EXCEPT ![Len(client.calls)] =
                       [@ EXCEPT !.status = "ok", !.result = res]]
       IN  /\ Accepted(c)
           /\ docs' = DocsAfter(c)
           /\ comments' = CommentsAfter(c)
           /\ edits' = IF c.op = "edit_document"
                       THEN Edited(client.op, client.args, c.document_id, c.payload)
                       ELSE edits
           /\ deleted' = IF c.op = "delete_reply"
                         THEN deleted \cup
                              {<<c.document_id, c.payload.comment_id, c.payload.reply_id>>}
                         ELSE deleted
           /\ IF ClientHasSecondCall(client.op, done)
              THEN client' = [client EXCEPT
                                 !.calls = Append(done, ClientSecondCall(client.args, res))]
              ELSE client' = [client EXCEPT !.pc = "returned", !.calls = done,
                                            !.result = res]
    /\ UNCHANGED <<pc, name, arguments, calls, response, before, ncalls, nexternal, other>>

(* The awaited call fails: the operation raises the call's exception. *)
ClientRaise(e) ==
    /\ client.pc = "awaiting"
    /\ e \in RemoteErrors(client.calls[Len(client.calls)])
    /\ client' = [client EXCEPT !.pc = "raised", !.error = e,
                     !.calls = [@ EXCEPT ![Len(@)] = [@ EXCEPT !.status = "error"]]]
    /\ UNCHANGED <<pc, name, arguments, calls, response, docs, comments, before, edits,
                   ncalls, deleted, nexternal, other>>

(* The caller has the operation's outcome. *)
ClientFinish ==
    /\ client.pc \in {"returned", "raised"}
    /\ client' = ClientIdle
    /\ UNCHANGED <<pc, name, arguments, calls, response, docs, comments, before, edits,
                   ncalls, deleted, nexternal, other>>

(* The batches of a writer outside this process. *)
ExternalBatches ==
    {<<[insertText |-> [location |-> [index |-> 1], text |-> <<"X">>]]>>,
     <<[deleteContentRange |-> [range |-> [startIndex |-> 1, endIndex |-> 2]]]>>}

(* A writer outside this process has a batch applied to the document, at   *)
(* any time, also between two calls of one operation.                      *)
ExternalEdit(d, requests) ==
    /\ nexternal < MaxExternal
    /\ d \in DOMAIN docs
    /\ BatchValid(docs[d].body, requests)
    /\ nexternal' = nexternal + 1
    /\ docs' = [docs EXCEPT ![d] = [@ EXCEPT !.body       = ApplyBatch(@, requests),
                                             !.revisionId = NextRevision(@)]]
    /\ edits' = Edited("external", <<>>, d, requests)
    /\ UNCHANGED <<pc, name, arguments, calls, response, comments, before, ncalls,
                   client, deleted, other>>

(* The comments a document can have when a caller starts: none, or one     *)
(* comment with two replies.                                               *)
InitComments ==
    {<<>>,
     <<[fileId |-> "d1", id |-> 1, content |-> "note", anchor |-> None,
        replies |-> <<[id |-> 1, content |-> "ok"], [id |-> 2, content |-> "ok"]>>,
        issued |-> 2]>>}

InitClient == \E cs \in InitComments : InitWith(cs)

NextClient ==
    \/ \E op \in ClientOps : \E a \in ClientArguments(op) : ClientStart(op, a)
    \/ ClientReturn
    \/ \E e \in {HttpError("unavailable"), HttpError("rejected")} : ClientRaise(e)
    \/ ClientFinish
    \/ \E d \in DocIds : \E r \in ExternalBatches : ExternalEdit(d, r)

SpecClient == InitClient /\ [][NextClient]_vars

---------------------------------------------------------------------------
(* Properties of the client's operations. *)

ClientFailed == client.pc = "raised" /\ client.error = HttpError("rejected")

(* The last batch applied to document d is the one rewrite_document        *)
(* submitted.                                                              *)
LastRewriteOf(d) ==
    LastEditIs("rewrite_document") /\ LastEdit.document_id = d

RewriteOfTextGivesText ==
    nexternal = 0 =>
        /\ (client.op = "rewrite_document" /\ ClientFailed)
           => client.calls[1].result.body.content = <<<<NL>>>>
        /\ (/\ client.op = "read_document_text"
            /\ client.pc = "returned"
            /\ LastRewriteOf(client.args.document_id))
           => normalize_text(client.result) = normalize_text(LastEdit.arguments.new_text)

(* The ids of the replies listed under the comment id in a list of         *)
(* comments, as read_comments returns it.                                  *)
ListedReplies(listing, id) ==
    {listing[i].replies[j].id :
        i \in {k \in 1..Len(listing) : listing[k].id = id},
        j \in 1..Len(listing[CHOOSE k \in 1..Len(listing) : listing[k].id = id].replies)}

Listed(listing, id) == \E i \in 1..Len(listing) : listing[i].id = id

(* The replies delete_reply has removed from the comment id of document d. *)
DeletedOf(d, id) == {t[3] : t \in {u \in deleted : u[1] = d /\ u[2] = id}}

(* C12: once delete_reply(document_id, comment_id, reply_id) has           *)
(* succeeded, no comment of the service has that reply again, and every    *)
(* read_comments(document_id) that returns lists the comment, without the  *)
(* deleted reply and with every other reply posted to it.                  *)
C12_DeletedReplyNeverListed ==
    /\ \A t \in deleted : HasComment(t[1], t[2]) /\ ~HasReply(t[1], t[2], t[3])
    /\ (client.op = "read_comments" /\ client.pc = "returned") =>
          \A i \in 1..Len(comments) :
              comments[i].fileId = client.args.document_id =>
                  /\ Listed(client.result, comments[i].id)
                  /\ ListedReplies(client.result, comments[i].id) =
                        (1..comments[i].issued) \
                            DeletedOf(client.args.document_id, comments[i].id)

(* read_comments has returned after reply 1 of comment 1 was deleted: the  *)
(* comment is listed with reply 2 alone.                                   *)
C12_Witness ==
    /\ client.op = "read_comments"
    /\ client.pc = "returned"
    /\ deleted = {<<"d1", 1, 1>>}
    /\ Len(client.result) = 1
    /\ client.result[1].id = 1
    /\ client.result[1].replies = <<[id |-> 2, content |-> "ok"]>>

---------------------------------------------------------------------------
(* Properties of the anchor a create-comment tool-call sends. *)

(* The comment-creation calls of the tool-call in progress. *)
CreationCalls == {i \in 1..Len(calls) : calls[i].op = "comments.create"}

AnchorOffset(anchor)      == anchor[4]
AnchorLength(anchor)      == anchor[6]
AnchorTotalLength(anchor) == anchor[8]

(* C13: every anchor sent in a comment-creation call has offset >= 0,      *)
(* length >= 1 and total_length >= length.                                 *)
C13_AnchorWellFormed ==
    \A i \in CreationCalls :
        /\ AnchorOffset(calls[i].payload.anchor) >= 0
        /\ AnchorLength(calls[i].payload.anchor) >= 1
        /\ AnchorTotalLength(calls[i].payload.anchor) >= AnchorLength(calls[i].payload.anchor)

---------------------------------------------------------------------------
(* Two tool-calls of one process.  handle_call_tool is a coroutine that    *)
(* is suspended at each await and takes no lock; server.run decides when   *)
(* the next invocation starts, so a second one can start while the first   *)
(* is suspended.                                                           *)

(* The tools of the second invocation: the edits that await one call. *)
OverlapTools == {"insert-text", "delete-content"}

(* A second invocation of the handler runs to its first await. *)
OtherStart(n, a) ==
    /\ other.pc = "idle"
    /\ ncalls < MaxCalls
    /\ n \in Handled
    /\ MissingKeys(n, a) = {}
    /\ ncalls' = ncalls + 1
    /\ other' = [pc |-> "awaiting", name |-> n, arguments |-> a,
                 calls |-> <<FirstCall(n, a)>>]
    /\ UNCHANGED <<pc, name, arguments, calls, response, docs, comments, before, edits,
                   client, deleted, nexternal>>

(* Its awaited call returns. *)
OtherReturn ==
    /\ other.pc = "awaiting"
    /\ LET c == other.calls[Len(other.calls)]
       IN  /\ Accepted(c)
           /\ docs' = DocsAfter(c)
           /\ comments' = CommentsAfter(c)
           /\ edits' = IF c.op = "edit_document"
                       THEN Edited(other.name, other.arguments, c.document_id, c.payload)
                       ELSE edits
           /\ other' = [other EXCEPT !.pc = "returned",
                           !.calls = [@ EXCEPT ![Len(@)] =
                                         [@ EXCEPT !.status = "ok", !.result = Result(c)]]]
    /\ UNCHANGED <<pc, name, arguments, calls, response, before, ncalls,
                   client, deleted, nexternal>>

(* Its awaited call fails. *)
OtherRaise(e) ==
    /\ other.pc = "awaiting"
    /\ e \in RemoteErrors(other.calls[Len(other.calls)])
    /\ other' = [other EXCEPT !.pc = "raised",
                    !.calls = [@ EXCEPT ![Len(@)] = [@ EXCEPT !.status = "error"]]]
    /\ UNCHANGED <<pc, name, arguments, calls, response, docs, comments, before, edits,
                   ncalls, client, deleted, nexternal>>

(* Its response is sent. *)
OtherFinish ==
    /\ other.pc \in {"returned", "raised"}
    /\ other' = OtherIdle
    /\ UNCHANGED <<pc, name, arguments, calls, response, docs, comments, before, edits,
                   ncalls, client, deleted, nexternal>>

NextOverlap ==
    \/ \E n \in OverlapTools : \E a \in FullArguments(n) : CallTool(n, a)
    \/ RemoteReturn
    \/ \E e \in {HttpError("unavailable"), HttpError("rejected")} : RemoteRaise(e)
    \/ Finish
    \/ \E n \in OverlapTools : \E a \in FullArguments(n) : OtherStart(n, a)
    \/ OtherReturn
    \/ \E e \in {HttpError("unavailable"), HttpError("rejected")} : OtherRaise(e)
    \/ OtherFinish

SpecOverlap == Init /\ [][NextOverlap]_vars

(* Both invocations have an edit of the same document pending. *)
EditsOverlap ==
    /\ pc = "awaiting"
    /\ other.pc = "awaiting"
    /\ calls[Len(calls)].op = "edit_document"
    /\ other.calls[Len(other.calls)].op = "edit_document"
    /\ calls[Len(calls)].document_id = other.calls[Len(other.calls)].document_id

---------------------------------------------------------------------------
(* Properties of rewrite_document next to another writer. *)

(* The text the read of the rewrite in progress returned. *)
RewriteRead == Flatten(client.calls[1].result.body.content)

(* The rewrite in progress has submitted its batch. *)
RewriteSubmitted == client.op = "rewrite_document" /\ Len(client.calls) = 2

(* The batch is the delete of [1, end) and the insert of new_text at 1,    *)
(* the end being the index of the final newline in the text the rewrite    *)
(* read; the call carries the document and the requests and nothing else.  *)
RewriteBatchFromRead ==
    RewriteSubmitted =>
        /\ client.calls[1].op = "read_document"
        /\ client.calls[1].status = "ok"
        /\ client.calls[2].op = "edit_document"
        /\ client.calls[2].document_id = client.args.document_id
        /\ client.calls[2].payload =
              <<[deleteContentRange |->
                    [range |-> [startIndex |-> 1, endIndex |-> Len(RewriteRead)]]],
                [insertText |->
                    [location |-> [index |-> 1], text |-> client.args.new_text]]>>
        /\ DOMAIN client.calls[2] =
              {"target", "op", "document_id", "payload", "status", "result"}

(* What the rewrite's batch leaves when it is applied: new_text, then      *)
(* whatever the body held from the computed end on.  That is new_text and  *)
(* the final newline exactly when the body was still as long as the text   *)
(* read.                                                                   *)
RewriteLeaves ==
    LastEditIs("rewrite_document") =>
        LET e    == LastEdit.requests[1].deleteContentRange.range.endIndex
            was  == LastEdit.was
            body == docs[LastEdit.document_id].body
        IN  /\ body = LastEdit.arguments.new_text \o SubSeq(was, e, Len(was))
            /\ (body = LastEdit.arguments.new_text \o <<NL>>) <=> (Len(was) = e)

(* The batch is rejected only when its delete is: the text read was empty, *)
(* or another writer has changed the document.                             *)
RewriteRejected ==
    (RewriteSubmitted /\ ClientFailed) =>
        \/ Len(RewriteRead) = 1
        \/ nexternal >= 1

(* C15: rewrite_document reads the document and then submits one batch     *)
(* that deletes [1, current_end_index) as computed from that read and      *)
(* inserts new_text, with no revision precondition; when another writer    *)
(* changes the document between the read and the batch, the batch is       *)
(* applied to the changed body or rejected.                                *)
C15_RewriteIsUnguardedReadModifyWrite ==
    /\ RewriteBatchFromRead
    /\ RewriteLeaves
    /\ RewriteRejected

(* Another writer inserted "X" between the read and the batch of a         *)
(* rewrite that then returned: the body is not new_text.                   *)
C15_Witness ==
    /\ client.op = "rewrite_document"
    /\ client.pc = "returned"
    /\ Len(edits) = 2
    /\ edits[1].tool = "external"
    /\ edits[1].was = RewriteRead
    /\ edits[2].tool = "rewrite_document"
    /\ docs["d1"].revisionId # client.calls[1].result.revisionId
    /\ docs["d1"].body # client.args.new_text \o <<NL>>
    /\ docs["d1"].body = client.args.new_text \o <<"o", NL>>

---------------------------------------------------------------------------
(* create-comment next to another writer. *)

NextExternal ==
    \/ \E a \in ArgumentMappings("create-comment") : CallTool("create-comment", a)
    \/ RemoteReturn
    \/ \E e \in {HttpError("unavailable"), HttpError("rejected")} : RemoteRaise(e)
    \/ Finish
    \/ \E d \in DocIds : \E r \in ExternalBatches : ExternalEdit(d, r)

SpecExternal == Init /\ [][NextExternal]_vars

AnchorRevision(anchor) == anchor[2]

(* The document's revision as the service has it now. *)
CurrentRevision(d) == docs[d].revisionId

(* The comment-creation call is issued and not yet answered. *)
CreationPending(i) == i \in CreationCalls /\ calls[i].status = "pending"

(* C16 as claimed: while the comment-creation call of a create-comment     *)
(* tool-call is issued and not answered, the revision in its anchor is the *)
(* document's current revision, whatever another writer does after the     *)
(* tool-call's read.                                                       *)
C16_AnchorRevisionCurrent ==
    \A i \in 1..Len(calls) :
        CreationPending(i) =>
            AnchorRevision(calls[i].payload.anchor) = CurrentRevision(calls[i].document_id)

(* C16: the revision in the anchor is the one the tool-call's read         *)
(* returned, and the handler reads once; it differs from the document's    *)
(* current revision only after another writer's edit, and a creation       *)
(* issued with it succeeds only while it is still current.                 *)
C16_AnchorRevisionIsTheOneRead ==
    \A i \in CreationCalls :
        /\ i = 2
        /\ calls[1].op = "read_document"
        /\ calls[1].status = "ok"
        /\ AnchorRevision(calls[i].payload.anchor) = calls[1].result.revisionId
        /\ (CreationPending(i) /\ AnchorRevision(calls[i].payload.anchor)
                                     # CurrentRevision(calls[i].document_id))
           => /\ nexternal >= 1
              /\ LastEditIs("external")
              /\ ~Accepted(calls[i])

(* Another writer edited the document after the read: the creation call    *)
(* carried the revision read, no longer the current one, and was rejected. *)
C16_Witness ==
    /\ name = "create-comment"
    /\ pc = "raised"
    /\ response.error = HttpError("rejected")
    /\ Len(calls) = 2
    /\ calls[2].op = "comments.create"
    /\ calls[2].status = "error"
    /\ calls[1].result.revisionId = "rA"
    /\ AnchorRevision(calls[2].payload.anchor) = "rA"
    /\ CurrentRevision("d1") = "rB"
    /\ LastEditIs("external")

====
